---- MODULE Spec2Model ----
(***************************************************************************)
(* Model of the situational question rewriter (ai_generate_questions) and  *)
(* of the GAD-7 / PHQ-9 scoring, classification and badge logic of         *)
(* gamified_mental_health_bot.py and mental_health_bot_combined.py.        *)
(*                                                                         *)
(* Text is a sequence of fragments.  A fragment is a piece of text that    *)
(* the string operations of the program never cut in the middle, except    *)
(* for the trailing blank of "When " / "when ", which strip() removes      *)
(* (TrimTail).  Width gives the number of characters of a fragment, so     *)
(* len() is the sum of the widths.                                         *)
(***************************************************************************)
EXTENDS Integers, Sequences, FiniteSets, TLC

\* ------------------------------------------------------------ bounds
MaxLines == 3      \* most lines in one reply of the generation service
MaxItems == 2      \* most canonical items handed to one rewrite call
MaxCalls == 2      \* rewrite calls of one session (one script run makes two)

\* ------------------------------------------------------------ text
NL == "\n"
Whitespace == {" ", NL}
\* the characters of ln.lstrip("0123456789.)-–— •") that occur in the model
ListMarkers == {"1", ".", ")", "-", " "}

\* the modelled part of SCENARIO_TRIGGERS
SCENARIO_TRIGGERS == {"when ", "at work"}

Width(tok) ==
    CASE tok = "When " -> 5
      [] tok = "when " -> 5
      [] tok = "When"  -> 4
      [] tok = "when"  -> 4
      [] tok = "at work" -> 7
      [] tok = "tired" -> 5
      [] tok = "ok" -> 2
      [] tok = "you think about your day, " -> 26
      [] tok = "you think about your day," -> 25
      [] OTHER -> 1

\* str.lower() on one fragment
LowerTok(tok) ==
    CASE tok = "When " -> "when "
      [] tok = "When"  -> "when"
      [] OTHER -> tok

lower(s) == [i \in 1..Len(s) |-> LowerTok(s[i])]

\* what strip() leaves of a last fragment that ends in a blank
TrimTail(tok) ==
    CASE tok = "When " -> "When"
      [] tok = "when " -> "when"
      [] tok = "you think about your day, " -> "you think about your day,"
      [] OTHER -> tok

RECURSIVE lstrip(_, _)
lstrip(s, chars) ==
    IF s = <<>> THEN <<>>
    ELSE IF Head(s) \in chars THEN lstrip(Tail(s), chars) ELSE s

RECURSIVE rstrip(_, _)
rstrip(s, chars) ==
    IF s = <<>> THEN <<>>
    ELSE IF s[Len(s)] \in chars THEN rstrip(SubSeq(s, 1, Len(s) - 1), chars) ELSE s

strip(s) ==
    LET r == rstrip(lstrip(s, Whitespace), Whitespace)
    IN  IF r = <<>> THEN <<>> ELSE [r EXCEPT ![Len(r)] = TrimTail(r[Len(r)])]

RECURSIVE len(_)
len(s) == IF s = <<>> THEN 0 ELSE Width(Head(s)) + len(Tail(s))

\* content.split("\n")
RECURSIVE split(_, _)
split(s, cur) ==
    IF s = <<>> THEN <<cur>>
    ELSE IF Head(s) = NL THEN <<cur>> \o split(Tail(s), <<>>)
    ELSE split(Tail(s), Append(cur, Head(s)))

Take(s, n) == SubSeq(s, 1, IF Len(s) < n THEN Len(s) ELSE n)

_looks_situational(line) ==
    /\ \E i \in 1..Len(line) : lower(line)[i] \in SCENARIO_TRIGGERS
    /\ \E i \in 1..Len(line) : line[i] = "?"

MinLen == 10

Valid(q) == len(q) > MinLen /\ _looks_situational(q)

\* lines 118-120: the validated lines of one reply
ScenarioLines(content) ==
    LET raw     == split(strip(content), <<>>)
        kept    == SelectSeq(raw, LAMBDA ln : strip(ln) # <<>>)
        lines   == [i \in 1..Len(kept) |-> strip(kept[i])]
        cleaned == [i \in 1..Len(lines) |-> strip(lstrip(lines[i], ListMarkers))]
    IN  SelectSeq(cleaned, Valid)

\* line 138: one canonical item of the fallback
FallbackPrefix == <<"When ", "you think about your day, ">>

\* variant: the fallback re-punctuates the item without the context clause
FixDefault_noPrefix(q) ==
    IF _looks_situational(q) THEN q
    ELSE rstrip(q, {"?"}) \o <<"?">>

FixDefault(q) ==
    IF _looks_situational(q) THEN q
    ELSE FallbackPrefix \o rstrip(q, {"?"}) \o <<"?">>

fixed_defaults(defs) == [i \in 1..Len(defs) |-> FixDefault(defs[i])]


\* ------------------------------------------------------------ inputs
\* replies of the generation service are built from these raw lines
RawLines ==
    { <<"1", ".", " ", "When ", "tired", " ", "tired", "?">>,   \* numbered, situational
      <<" ", "at work", " ", "tired", "?", " ">>,               \* padded, situational
      <<"When ", "ok", "?">>,                                   \* situational, 8 characters
      <<"tired", " ", "tired", " ", "tired", "?">>,             \* no context clause
      <<"When ", "tired", " ", "tired">> }                      \* no question mark

RECURSIVE join(_)
join(ls) ==
    IF ls = <<>> THEN <<>>
    ELSE IF Len(ls) = 1 THEN Head(ls)
    ELSE Head(ls) \o <<NL>> \o join(Tail(ls))

SeqsUpTo(S, n) == UNION { [1..k -> S] : k \in 0..n }

Contents == { join(ls) : ls \in SeqsUpTo(RawLines, MaxLines) }

\* the validated lines of every reply, computed once
Parsed == [c \in Contents |-> ScenarioLines(c)]

Errors == {"rate limit"}

\* canonical items handed to the rewriter
CanonicalItems ==
    { <<"at work", " ", "tired", "?">>,          \* already situational
      <<"tired", " ", "tired", "?", "?">> }      \* generic question

DefaultLists == UNION { [1..k -> CanonicalItems] : k \in 1..MaxItems }

\* the rewrite instructions; the key of a cache entry is (instruction, count)
Prompts == {"gad_prompt"}

DefaultModels == <<"gpt-4.1-nano", "gpt-4o-mini", "gpt-3.5-turbo">>

\* model_candidates: <<>> stands for None and for [], both falsy
CandidateLists == { <<>>, <<"gpt-4o-mini">> }

Candidates(model_candidates) ==
    IF model_candidates = <<>> THEN DefaultModels ELSE model_candidates

\* hash(prompt): distinct prompts of the model have distinct hashes
hash(p) == IF p = "gad_prompt" THEN 1 ELSE 2

CacheKey(p, n) == <<"ai_q", hash(p), n>>

\* ------------------------------------------------------------ scoring data
\* score_map (lines 166-171)
Responses == {"Not at all", "Several days", "More than half the days", "Nearly every day"}

score_map(r) ==
    CASE r = "Not at all" -> 0
      [] r = "Several days" -> 1
      [] r = "More than half the days" -> 2
      [] r = "Nearly every day" -> 3

\* len(gad_questions), len(phq_questions)
GadItems == 7
PhqItems == 9

\* variant: the band limits are exclusive
GadLabel_exclusive(score) ==
    IF score < 4 THEN "Minimal anxiety"
    ELSE IF score < 9 THEN "Mild anxiety"
    ELSE IF score < 14 THEN "Moderate anxiety"
    ELSE "Severe anxiety"

\* lines 246-253
GadLabel(score) ==
    IF score <= 4 THEN "Minimal anxiety"
    ELSE IF score <= 9 THEN "Mild anxiety"
    ELSE IF score <= 14 THEN "Moderate anxiety"
    ELSE "Severe anxiety"

\* lines 256-265
PhqLabel(score) ==
    IF score <= 4 THEN "Minimal depression"
    ELSE IF score <= 9 THEN "Mild depression"
    ELSE IF score <= 14 THEN "Moderate depression"
    ELSE IF score <= 19 THEN "Moderately severe depression"
    ELSE "Severe depression"

\* lines 269-274
Badge(phq, gad) ==
    IF phq < 10 /\ gad < 10 THEN "Mindful Mover"
    ELSE IF (10 <= phq /\ phq < 15) \/ (10 <= gad /\ gad < 15) THEN "Resilience Builder"
    ELSE "Courageous Warrior"

\* ------------------------------------------------------------ state
VARIABLES
    session_state,   \* st.session_state: cache key -> (questions, meta)
    pc,              \* "idle", "loop", "fallback", "returned", "raised"
    prompt, defaults, force_refresh, models,   \* arguments of the call
    mi, strict,      \* position of the two nested loops
    meta,            \* meta of lines 99, 124, 128, 132
    scenario_lines,  \* validated lines of the last attempt (line 120), none if it raised
    last,            \* how the last attempt ended
    backoff,         \* time.sleep(0.2) ran in the last attempt
    calls,           \* generation calls issued by the current call
    result,          \* value returned to the caller
    ncalls,          \* rewrite calls started in this session
    stage,           \* position of the script: "gad", "phq", "results", "done"
    answered,        \* sliders read in the current loop
    gad_score, phq_score,
    gad_label, phq_label, badge

rvars == <<session_state, pc, prompt, defaults, force_refresh, models, mi,
           strict, meta, scenario_lines, last, backoff, calls, result, ncalls>>

svars == <<stage, answered, gad_score, phq_score, gad_label, phq_label, badge>>

vars == <<rvars, svars>>

NoReason == [kind |-> "not attempted", n |-> 0, strict |-> FALSE, err |-> ""]
NoMeta == [used_model |-> "None", ai_ok |-> FALSE, reason |-> NoReason]
NoResult == [questions |-> <<>>, meta |-> NoMeta]

expected == Len(defaults)
cache_key == CacheKey(prompt, expected)

Store(k, v) ==
    [x \in (DOMAIN session_state) \cup {k} |-> IF x = k THEN v ELSE session_state[x]]

InitRewriter ==
    /\ session_state = <<>>
    /\ pc = "idle"
    /\ prompt = "gad_prompt"
    /\ defaults = <<>>
    /\ force_refresh = FALSE
    /\ models = DefaultModels
    /\ mi = 1
    /\ strict = FALSE
    /\ meta = NoMeta
    /\ scenario_lines = <<>>
    /\ last = "none"
    /\ backoff = FALSE
    /\ calls = <<>>
    /\ result = NoResult
    /\ ncalls = 0

\* variant: the lookup key leaves out the expected count
CacheHit_noCount(p, d, fr) == ~fr /\ <<"ai_q", hash(p)>> \in DOMAIN session_state

\* variant: the cache is read even when a refresh is forced
CacheHit_ignoresRefresh(p, d, fr) == CacheKey(p, Len(d)) \in DOMAIN session_state

\* lines 92-99: entry of ai_generate_questions
CacheHit(p, d, fr) == ~fr /\ CacheKey(p, Len(d)) \in DOMAIN session_state

Call(p, d, mc, fr) ==
    /\ pc = "idle"
    /\ ncalls < MaxCalls
    /\ ncalls' = ncalls + 1
    /\ prompt' = p
    /\ defaults' = d
    /\ force_refresh' = fr
    /\ models' = Candidates(mc)
    /\ mi' = 1
    /\ strict' = FALSE
    /\ meta' = NoMeta
    /\ scenario_lines' = <<>>
    /\ last' = "none"
    /\ backoff' = FALSE
    /\ calls' = <<>>
    /\ IF CacheHit(p, d, fr)
       THEN /\ result' = session_state[CacheKey(p, Len(d))]
            /\ pc' = "returned"
       ELSE /\ result' = NoResult
            /\ pc' = "loop"
    /\ UNCHANGED session_state
    /\ UNCHANGED svars

\* variant: the strict retry of an engine is skipped
NextAttempt_skipStrict ==
    /\ strict' = FALSE
    /\ mi' = mi + 1
    /\ pc' = IF mi + 1 > Len(models) THEN "fallback" ELSE "loop"

\* lines 101-102: the next iteration of "for model_name / for strict"
NextAttempt ==
    IF ~strict THEN /\ strict' = TRUE
                    /\ mi' = mi
                    /\ pc' = "loop"
    ELSE /\ strict' = FALSE
         /\ mi' = mi + 1
         /\ pc' = IF mi + 1 > Len(models) THEN "fallback" ELSE "loop"

\* variant: no except clause, the error leaves ai_generate_questions
OnError_raises(e) ==
    /\ pc' = "raised"
    /\ last' = "error"
    /\ UNCHANGED <<session_state, result, scenario_lines, meta, backoff, mi, strict>>

\* lines 131-133: the generation call raised
OnError(e) ==
    /\ meta' = [used_model |-> models[mi], ai_ok |-> FALSE,
                reason |-> [kind |-> "error", n |-> 0, strict |-> FALSE, err |-> e]]
    /\ backoff' = FALSE
    /\ last' = "error"
    /\ scenario_lines' = <<>>
    /\ NextAttempt
    /\ UNCHANGED <<session_state, result>>

AttemptError(e) ==
    /\ pc = "loop"
    /\ calls' = Append(calls, <<models[mi], strict>>)
    /\ OnError(e)
    /\ UNCHANGED <<prompt, defaults, force_refresh, models, ncalls>>
    /\ UNCHANGED svars

\* variant: the validated lines are not cut to the expected count
Questions_noTruncate(valid, n) == valid

\* line 121
Questions(valid, n) == Take(valid, n)

\* line 123
Accepted(questions, n) == Len(questions) = n

\* lines 118-130: the generation call answered with content
OnReply(content) ==
    LET questions == Questions(Parsed[content], expected)
    IN  /\ scenario_lines' = Parsed[content]
        /\ IF Accepted(questions, expected)
           THEN /\ meta' = [used_model |-> models[mi], ai_ok |-> TRUE,
                            reason |-> [kind |-> "scenario-ok", n |-> 0,
                                        strict |-> strict, err |-> ""]]
                /\ session_state' = Store(cache_key, [questions |-> questions, meta |-> meta'])
                /\ result' = [questions |-> questions, meta |-> meta']
                /\ backoff' = FALSE
                /\ last' = "accepted"
                /\ pc' = "returned"
                /\ UNCHANGED <<mi, strict>>
           ELSE /\ meta' = [used_model |-> models[mi], ai_ok |-> FALSE,
                            reason |-> [kind |-> "got", n |-> Len(questions),
                                        strict |-> strict, err |-> ""]]
                /\ backoff' = TRUE
                /\ last' = "rejected"
                /\ NextAttempt
                /\ UNCHANGED <<session_state, result>>

AttemptReply(content) ==
    /\ pc = "loop"
    /\ calls' = Append(calls, <<models[mi], strict>>)
    /\ OnReply(content)
    /\ UNCHANGED <<prompt, defaults, force_refresh, models, ncalls>>
    /\ UNCHANGED svars

\* variant: the fallback outcome is returned without being cached
Fallback_noStore ==
    /\ pc = "fallback"
    /\ result' = [questions |-> fixed_defaults(defaults), meta |-> meta]
    /\ pc' = "returned"
    /\ UNCHANGED <<session_state, prompt, defaults, force_refresh, models, mi, strict,
                   meta, scenario_lines, last, backoff, calls, ncalls>>
    /\ UNCHANGED svars

\* lines 135-141: all attempts failed
Fallback ==
    /\ pc = "fallback"
    /\ result' = [questions |-> fixed_defaults(defaults), meta |-> meta]
    /\ session_state' = Store(cache_key, result')
    /\ pc' = "returned"
    /\ UNCHANGED <<prompt, defaults, force_refresh, models, mi, strict, meta,
                   scenario_lines, last, backoff, calls, ncalls>>
    /\ UNCHANGED svars

\* the caller takes the result (lines 195, 227)
Return ==
    /\ pc = "returned"
    /\ pc' = "idle"
    /\ prompt' = "gad_prompt"
    /\ defaults' = <<>>
    /\ force_refresh' = FALSE
    /\ models' = DefaultModels
    /\ mi' = 1
    /\ strict' = FALSE
    /\ meta' = NoMeta
    /\ scenario_lines' = <<>>
    /\ last' = "none"
    /\ backoff' = FALSE
    /\ calls' = <<>>
    /\ result' = NoResult
    /\ UNCHANGED <<session_state, ncalls>>
    /\ UNCHANGED svars

\* ------------------------------------------------------------ scoring
InitScore ==
    /\ stage = "gad"
    /\ answered = 0
    /\ gad_score = 0
    /\ phq_score = 0
    /\ gad_label = "none"
    /\ phq_label = "none"
    /\ badge = "none"

\* lines 202-205: one slider of the GAD-7 loop
AnswerGad(response) ==
    /\ stage = "gad"
    /\ answered < GadItems
    /\ gad_score' = gad_score + score_map(response)
    /\ answered' = IF answered + 1 = GadItems THEN 0 ELSE answered + 1
    /\ stage' = IF answered + 1 = GadItems THEN "phq" ELSE "gad"
    /\ UNCHANGED <<phq_score, gad_label, phq_label, badge>>
    /\ UNCHANGED rvars

\* lines 234-237: one slider of the PHQ-9 loop
AnswerPhq(response) ==
    /\ stage = "phq"
    /\ answered < PhqItems
    /\ phq_score' = phq_score + score_map(response)
    /\ answered' = IF answered + 1 = PhqItems THEN 0 ELSE answered + 1
    /\ stage' = IF answered + 1 = PhqItems THEN "results" ELSE "phq"
    /\ UNCHANGED <<gad_score, gad_label, phq_label, badge>>
    /\ UNCHANGED rvars

\* lines 245-274: severity bands and badge
Results ==
    /\ stage = "results"
    /\ gad_label' = GadLabel(gad_score)
    /\ phq_label' = PhqLabel(phq_score)
    /\ badge' = Badge(phq_score, gad_score)
    /\ stage' = "done"
    /\ UNCHANGED <<answered, gad_score, phq_score>>
    /\ UNCHANGED rvars

Init == InitRewriter /\ InitScore

Next ==
    \/ \E p \in Prompts, d \in DefaultLists, mc \in CandidateLists, fr \in BOOLEAN :
          Call(p, d, mc, fr)
    \/ \E e \in Errors : AttemptError(e)
    \/ \E c \in Contents : AttemptReply(c)
    \/ Fallback
    \/ Return

Spec == Init /\ [][Next]_vars

NextScore ==
    \/ \E r \in Responses : AnswerGad(r)
    \/ \E r \in Responses : AnswerPhq(r)
    \/ Results

SpecScore == Init /\ [][NextScore]_vars

\* ------------------------------------------------------------ properties
Fresh == calls # <<>>
AllAttempts == 2 * Len(models)
Range(f) == { f[i] : i \in DOMAIN f }

\* C1: once an outcome is cached for (instruction, N), a call with the same
\* instruction and N and force_refresh = false issues no generation call and
\* returns exactly the cached (items, meta) pair.
C1_CacheHitIdempotent ==
    /\ (pc \in {"loop", "fallback"} /\ ~force_refresh)
          => cache_key \notin DOMAIN session_state
    /\ (pc = "returned" /\ ~force_refresh /\ ~Fresh)
          => /\ cache_key \in DOMAIN session_state
             /\ result = session_state[cache_key]
    /\ (pc = "returned" /\ ~Fresh) => ~force_refresh

C1_Witness ==
    /\ pc = "returned"
    /\ ncalls = 2
    /\ ~Fresh
    /\ ~force_refresh
    /\ result.meta.ai_ok
    /\ Len(result.questions) = 2

\* C2: a call with force_refresh = true issues at least one generation call,
\* also when its key is already cached, and on return the cache entry of its
\* key is the outcome just returned.
C2_ForcedRefresh ==
    /\ (pc = "returned" /\ force_refresh)
          => /\ Len(calls) >= 1
             /\ cache_key \in DOMAIN session_state
             /\ session_state[cache_key] = result
    /\ (pc # "idle" /\ force_refresh /\ cache_key \in DOMAIN session_state)
          => (Fresh \/ (pc = "loop" /\ mi = 1 /\ ~strict))

\* the second call of the session forced a refresh of the only cached key
C2_Witness ==
    /\ pc = "returned"
    /\ force_refresh
    /\ ncalls = 2
    /\ Cardinality(DOMAIN session_state) = 1
    /\ Len(calls) >= 1
    /\ ~result.meta.ai_ok

\* C3: when every attempt of every engine failed, the call returns exactly N
\* items and each of them looks situational, whatever the canonical items.
C3_FallbackGuarantee ==
    (pc = "returned" /\ Fresh /\ last # "accepted")
      => /\ Len(calls) = AllAttempts
         /\ Len(result.questions) = Len(defaults)
         /\ \A i \in 1..Len(result.questions) : _looks_situational(result.questions[i])

C3_Witness ==
    /\ pc = "returned"
    /\ Len(calls) = AllAttempts
    /\ last = "rejected"
    /\ Len(defaults) = 2
    /\ ~_looks_situational(defaults[1])
    /\ _looks_situational(defaults[2])

\* C4 as stated: an attempt is accepted only if its number of validated lines
\* is exactly N.
C4_ExactCount ==
    (last = "accepted") => Len(scenario_lines) = expected

\* C4 as amended: an attempt is accepted exactly when it has at least N
\* validated lines; the first N of them are returned and the rest dropped; an
\* attempt with fewer than N validated lines is rejected and none of its lines
\* is returned.
C4_AtLeastCount ==
    /\ (last = "accepted")
          => /\ Len(scenario_lines) >= expected
             /\ result.questions = SubSeq(scenario_lines, 1, expected)
    /\ (last = "rejected")
          => /\ Len(scenario_lines) < expected
             /\ meta.reason.n = Len(scenario_lines)
             /\ pc \in {"loop", "fallback"} => result = NoResult
             /\ pc = "returned" => result.questions = fixed_defaults(defaults)

C4_Witness ==
    /\ pc = "returned"
    /\ last = "accepted"
    /\ expected = 2
    /\ Len(scenario_lines) = 3
    /\ scenario_lines[3] # scenario_lines[1]

\* C5: no exception leaves the call; it returns N items and a meta record
\* with used_model, ai_ok and reason, and an attempt that raised is followed
\* by the remaining attempts or the fallback.
C5_NoEscape ==
    /\ pc # "raised"
    /\ (pc = "returned")
          => /\ Len(result.questions) = Len(defaults)
             /\ DOMAIN result.meta = {"used_model", "ai_ok", "reason"}
             /\ result.meta.ai_ok \in BOOLEAN
    /\ (last = "error")
          => \/ pc = "loop" /\ Len(calls) < AllAttempts
             \/ pc = "fallback" /\ Len(calls) = AllAttempts
             \/ pc = "returned" /\ Len(calls) = AllAttempts

C5_Witness ==
    /\ pc = "returned"
    /\ last = "error"
    /\ Len(calls) = 6
    /\ Len(result.questions) = 2
    /\ result.meta.reason.kind = "error"

\* C6 as stated: an attempt that ends in a call error records the error as
\* reason and applies the backoff delay before the next attempt.
C6_BackoffAfterError ==
    (last = "error") => (meta.reason.kind = "error" /\ backoff)

\* C7: on exhaustion the fallback outcome is cached under the call's key
\* with ai_ok = false; ai_ok = true is returned only with the validated
\* lines of an accepted attempt of the engine named in used_model, and that
\* outcome is the cached one.
C7_ExhaustionOutcome ==
    /\ (pc = "returned" /\ Fresh /\ last # "accepted")
          => /\ cache_key \in DOMAIN session_state
             /\ session_state[cache_key] = result
             /\ ~result.meta.ai_ok
    /\ (pc = "returned" /\ result.meta.ai_ok)
          => /\ cache_key \in DOMAIN session_state
             /\ session_state[cache_key] = result
             /\ Len(result.questions) = expected
             /\ \A i \in 1..Len(result.questions) :
                    /\ len(result.questions[i]) > MinLen
                    /\ _looks_situational(result.questions[i])
             /\ result.meta.used_model \in Range(DefaultModels) \cup {"gpt-4o-mini"}
             /\ Fresh => /\ last = "accepted"
                          /\ result.meta.used_model = calls[Len(calls)][1]
                          /\ result.meta.reason.strict = calls[Len(calls)][2]
                          /\ result.questions = SubSeq(scenario_lines, 1, expected)

C7_Witness ==
    /\ pc = "returned"
    /\ Fresh
    /\ result.meta.ai_ok
    /\ result.meta.used_model = "gpt-3.5-turbo"
    /\ result.meta.reason.strict
    /\ expected = 2

\* C10: the generation calls of one rewrite call follow the engine order,
\* normal mode before strict mode for each engine; there are at most
\* 2 x (number of engines) of them, none after an accepted attempt, and the
\* fallback is reached only after all of them failed.
C10_AttemptOrder ==
    /\ Len(calls) <= AllAttempts
    /\ \A k \in 1..Len(calls) :
          calls[k] = << models[(k + 1) \div 2], (k % 2 = 0) >>
    /\ (pc = "loop") => Len(calls) = 2 * (mi - 1) + (IF strict THEN 1 ELSE 0)
    /\ (pc = "fallback") => (Len(calls) = AllAttempts /\ last \in {"error", "rejected"})
    /\ (last = "accepted") => pc = "returned"
    /\ (pc = "returned" /\ Fresh /\ last # "accepted") => Len(calls) = AllAttempts

C10_Witness ==
    /\ pc = "fallback"
    /\ Len(models) = 3
    /\ Len(calls) = 6
    /\ calls[4] = <<"gpt-4o-mini", TRUE>>

GadBands == << <<4, "Minimal anxiety">>, <<9, "Mild anxiety">>,
               <<14, "Moderate anxiety">>, <<21, "Severe anxiety">> >>
PhqBands == << <<4, "Minimal depression">>, <<9, "Mild depression">>,
               <<14, "Moderate depression">>, <<19, "Moderately severe depression">>,
               <<27, "Severe depression">> >>

FirstBand(bands, score, i) ==
    /\ bands[i][1] >= score
    /\ \A j \in 1..(i - 1) : bands[j][1] < score

\* C9: a score summed from N answers in 0..3 lies in 0..3N and is given the
\* label of the first band whose inclusive upper bound is >= the score; 0
\* is "Minimal anxiety" and 21 is "Severe anxiety".
C9_ClassifyTotal ==
    /\ gad_score \in 0..(3 * GadItems)
    /\ phq_score \in 0..(3 * PhqItems)
    /\ (stage = "gad") => gad_score <= 3 * answered
    /\ (stage = "phq") => phq_score <= 3 * answered
    /\ (stage = "done")
          => /\ \E i \in 1..Len(GadBands) :
                    FirstBand(GadBands, gad_score, i) /\ gad_label = GadBands[i][2]
             /\ \E i \in 1..Len(PhqBands) :
                    FirstBand(PhqBands, phq_score, i) /\ phq_label = PhqBands[i][2]
             /\ Cardinality({i \in 1..Len(GadBands) : FirstBand(GadBands, gad_score, i)}) = 1
             /\ Cardinality({i \in 1..Len(PhqBands) : FirstBand(PhqBands, phq_score, i)}) = 1
             /\ (gad_score = 0) => gad_label = "Minimal anxiety"
             /\ (gad_score = 21) => gad_label = "Severe anxiety"

C9_Witness ==
    /\ stage = "done"
    /\ gad_score = 21
    /\ gad_label = "Severe anxiety"
    /\ phq_score = 19
    /\ phq_label = "Moderately severe depression"

====
